---- MODULE Spec2Model ----
(***************************************************************************)
(* Model of train_regression_model_CV.py: the cross-validation fold loop   *)
(* of __main__, run_experiment (optimizer selection, epoch loop with early *)
(* stopping and checkpoint selection), get_test_set_results (checkpoint    *)
(* load) and the regression-to-class threshold mapper call sites.          *)
(*                                                                         *)
(* Strings are sequences of one-character strings, so that startswith,     *)
(* sorted, str(int) and "+" are computed as Python computes them.          *)
(* Accuracies are the number of correctly classified validation images of  *)
(* a validation set of 40000 images (val_accuracy = correct / 40000); the  *)
(* comparison with best_acc * (1 + best_threshold) is done exactly on      *)
(* these numerators.  Regression outputs and cut points are in tenths.     *)
(***************************************************************************)
EXTENDS Integers, Sequences, FiniteSets, TLC

VARIABLES
    \* ---- configuration (module globals set in __main__)
    model_name,             \* args.model_name
    optimizer_name,         \* optimizer name seen by run_experiment
    layer_decay,            \* args.layer_decay
    num_epoch,              \* args.num_epoch
    early_stopping_thresh,  \* args.early_stopping_threshold
    listdir,                \* os.listdir(CV_fold_path)
    \* ---- environment
    files,                  \* the weights directory: path -> saved state_dict
    \* ---- __main__
    pc,                     \* control position
    exception,              \* the exception that ended the program, or "none"
    CV_fold_folders,
    i,                      \* fold loop index
    metrics,                \* the fifteen per-fold metric lists
    class_arrays,           \* class_precisions, class_recalls, class_f1s
    test_model,             \* the state_dict get_test_set_results loaded
    \* ---- run_experiment
    experiment_id,
    train_dir,              \* the fold folder the call trains on
    best_acc,
    early_stop_counter,
    epoch,                  \* position of the iterator of range(num_epoch)
    model,                  \* the weights being trained
    optimizer,
    \* ---- history of the current run_experiment call and of the file accesses
    history,                \* one record per executed epoch
    broke,                  \* the epoch loop was left by the break of line 234
    saved_paths,            \* <<id, path>> of every torch.save
    loaded_paths,           \* <<id, path>> of every torch.load
    \* ---- threshold mapper call sites
    call_site,
    cut_inclusive,          \* whether an output equal to a cut point takes the upper class
    output,                 \* batch of regression outputs
    output_classified       \* batch of classes the mapper returned

mainVars == <<model_name, optimizer_name, layer_decay, num_epoch, early_stopping_thresh,
              listdir, files, pc, exception, CV_fold_folders, i, metrics, class_arrays,
              test_model, experiment_id, train_dir, best_acc, early_stop_counter, epoch,
              model, optimizer, history, broke, saved_paths, loaded_paths>>
mapperVars == <<call_site, cut_inclusive, output, output_classified>>
vars == <<mainVars, mapperVars>>

----------------------------------------------------------------------------
(* Bounds *)

MaxEpoch == 3
MaxThresh == 2

----------------------------------------------------------------------------
(* Strings *)

Digits == <<"0", "1", "2", "3", "4", "5", "6", "7", "8", "9">>

\* str(n) for n >= 0
RECURSIVE Str(_)
Str(n) == IF n < 10 THEN <<Digits[n + 1]>>
          ELSE Str(n \div 10) \o <<Digits[(n % 10) + 1]>>

\* ord(c) for the characters of the directory entries
CodePoint(c) ==
    CASE c = "0" -> 48 [] c = "1" -> 49 [] c = "2" -> 50 [] c = "3" -> 51
      [] c = "d" -> 100 [] c = "e" -> 101 [] c = "f" -> 102 [] c = "l" -> 108
      [] c = "o" -> 111 [] c = "s" -> 115 [] c = "t" -> 116

\* a < b on str
RECURSIVE StrLess(_, _)
StrLess(a, b) ==
    IF a = <<>> THEN b # <<>>
    ELSE IF b = <<>> THEN FALSE
    ELSE IF Head(a) = Head(b) THEN StrLess(Tail(a), Tail(b))
    ELSE CodePoint(Head(a)) < CodePoint(Head(b))

\* x.startswith(p)
StartsWith(x, p) == Len(x) >= Len(p) /\ SubSeq(x, 1, Len(p)) = p

Insert(x, s) ==
    LET k == Cardinality({j \in 1..Len(s) : ~StrLess(x, s[j])})
    IN  SubSeq(s, 1, k) \o <<x>> \o SubSeq(s, k + 1, Len(s))

\* sorted(s)
RECURSIVE Sorted(_)
Sorted(s) == IF s = <<>> THEN <<>> ELSE Insert(Head(s), Sorted(Tail(s)))

----------------------------------------------------------------------------
(* Inputs *)

Fold1 == <<"f", "o", "l", "d", "1">>
Fold2 == <<"f", "o", "l", "d", "2">>
TestSet == <<"t", "e", "s", "t">>

\* contents of CV_fold_path
Listings == { <<TestSet>>, <<Fold1>>, <<Fold2, TestSet, Fold1>>, <<Fold1, Fold2>> }

ResNet18 == <<"R", "e", "s", "N", "e", "t", "1", "8">>
Inception_v3 == <<"I", "n", "c", "e", "p", "t", "i", "o", "n", "_", "v", "3">>
ModelNames == {ResNet18, Inception_v3}

OptimizerNames == {"Adam", "AdamW", "SGD", "RMSprop"}

\* numbers of correct validation images out of 40000: 20001 is above 20000 by
\* less than the relative threshold, 20003 by more
AccValues == {0, 20000, 20001, 20003}

NoModel == [run |-> "none", state |-> [fold |-> 0, trained |-> 0]]
StaleCheckpoint == [run |-> "previous", state |-> [fold |-> 1, trained |-> 1]]

----------------------------------------------------------------------------
(* run_experiment *)

\* best_threshold = 0.0001, as the fraction 1 / 10000
best_threshold == <<1, 10000>>

\* val_accuracy > best_acc * (1 + best_threshold)
ImprovesOrEqual(val_accuracy, best) ==
    val_accuracy * best_threshold[2] >= best * (best_threshold[2] + best_threshold[1])
Improves(val_accuracy, best) ==
    val_accuracy * best_threshold[2] > best * (best_threshold[2] + best_threshold[1])

\* early_stop_counter after the if/else of lines 223-230
CounterNeverReset(improved, counter) == counter + 1
CounterAfter(improved, counter) == IF improved THEN 0 ELSE counter + 1

\* best_acc after the if/else of lines 223-230
BestAlwaysLast(improved, val_accuracy, best) == val_accuracy
BestAfter(improved, val_accuracy, best) == IF improved THEN val_accuracy ELSE best

\* early_stop_counter >= early_stopping_thresh
StopsAbove(counter, thresh) == counter > thresh
ShouldStop(counter, thresh) == counter >= thresh

\* range(num_epoch)
EpochRangeInclusive(n) == 0..n
EpochRange(n) == 0..(n - 1)

WeightsPrefix == <<"w", "e", "i", "g", "h", "t", "s", "/", "b", "e", "s", "t", "_", "R", "_">>
WeightsSuffix == <<".", "p", "t", "h", ".", "t", "a", "r">>

\* "weights/best_R_" + model_name + "_" + str(experiment_id) + ".pth.tar"
SavePathNoId(name, id) == WeightsPrefix \o name \o WeightsSuffix
SavePath(name, id) == WeightsPrefix \o name \o <<"_">> \o Str(id) \o WeightsSuffix

\* "weights/best_R_" + model_name + "_" + str(id) + ".pth.tar"
LoadPath(name, id) == WeightsPrefix \o name \o <<"_">> \o Str(id) \o WeightsSuffix

\* the if/elif chain of lines 182-193
OptimizerDefaultAdam(name, decay) ==
    IF name = "AdamW" /\ decay > 0 THEN "AdamW_lrd"
    ELSE IF name = "AdamW" THEN "AdamW"
    ELSE IF name = "SGD" THEN "SGD"
    ELSE "Adam"
OptimizerChoice(name, decay) ==
    IF name = "AdamW" /\ decay > 0 THEN "AdamW_lrd"
    ELSE IF name = "Adam" THEN "Adam"
    ELSE IF name = "AdamW" THEN "AdamW"
    ELSE IF name = "SGD" THEN "SGD"
    ELSE "raise"

\* what the weights directory holds at path
CheckpointAt(fs, path) == IF path \in DOMAIN fs THEN fs[path] ELSE NoModel

\* torch.save(obj, path)
Write(fs, path, obj) ==
    [p \in DOMAIN fs \cup {path} |-> IF p = path THEN obj ELSE fs[p]]

----------------------------------------------------------------------------
(* __main__ *)

IsFoldName(x) == StartsWith(x, <<"f", "o", "l", "d">>)

\* lines 319-320
FoldFolders(entries) == Sorted(SelectSeq(entries, IsFoldName))

number_of_experiments == Len(CV_fold_folders)

MetricLists == {"kappa_scores", "weighted_kappa_scores", "accuracies", "sensitivities",
                "specificities", "macro_precisions", "macro_recalls", "macro_f1s",
                "precisions_r", "recalls_r", "f1s_r", "kappa_scores_r", "accuracies_r",
                "sensitivities_r", "specificities_r"}
ClassArrays == {"class_precisions", "class_recalls", "class_f1s"}

\* the appends of lines 380-417; a fold's metric value is abstracted to the
\* fold whose checkpoint was evaluated
AppendSkippingOne(m, result) ==
    [l \in MetricLists |-> IF l = "f1s_r" THEN m[l] ELSE Append(m[l], result)]
AppendMetrics(m, result) == [l \in MetricLists |-> Append(m[l], result)]

\* class_precisions[i] = ..., class_recalls[i] = ..., class_f1s[i] = ...
WriteRows(arrays, index, result) ==
    [a \in ClassArrays |-> [arrays[a] EXCEPT ![index + 1] = result]]

----------------------------------------------------------------------------
(* Initial states *)

MapperIdle ==
    /\ call_site = "none"
    /\ cut_inclusive = FALSE
    /\ output = <<>>
    /\ output_classified = <<>>

MainStart ==
    /\ pc = "start"
    /\ exception = "none"
    /\ CV_fold_folders = <<>>
    /\ i = 0
    /\ metrics = [l \in MetricLists |-> <<>>]
    /\ class_arrays = [a \in ClassArrays |-> <<>>]
    /\ test_model = NoModel
    /\ experiment_id = 0
    /\ train_dir = <<>>
    /\ best_acc = 0
    /\ early_stop_counter = 0
    /\ epoch = 0
    /\ model = NoModel.state
    /\ optimizer = "none"
    /\ history = <<>>
    /\ broke = FALSE
    /\ saved_paths = {}
    /\ loaded_paths = {}

Init ==
    /\ model_name \in ModelNames
    /\ optimizer_name \in OptimizerNames
    /\ layer_decay \in {0, 1}
    /\ num_epoch \in 0..MaxEpoch
    /\ early_stopping_thresh \in 0..MaxThresh
    /\ listdir \in Listings
    \* the weights directory may hold a checkpoint of an earlier run (lines 306-310)
    /\ files \in {<<>>, [p \in {SavePath(model_name, 1)} |-> StaleCheckpoint]}
    /\ MainStart
    /\ MapperIdle

----------------------------------------------------------------------------
(* Actions of __main__ and run_experiment *)

runVars == <<experiment_id, train_dir, best_acc, early_stop_counter, epoch, model, optimizer,
             history, broke>>
configVars == <<model_name, optimizer_name, layer_decay, num_epoch,
                early_stopping_thresh, listdir>>

\* lines 318-344: fold discovery and the empty metric arrays
Discover ==
    /\ pc = "start"
    /\ CV_fold_folders' = FoldFolders(listdir)
    /\ metrics' = [l \in MetricLists |-> <<>>]
    /\ class_arrays' = [a \in ClassArrays |->
                          [r \in 1..Len(FoldFolders(listdir)) |-> 0]]
    /\ pc' = "main"
    /\ UNCHANGED <<configVars, files, exception, i, test_model, runVars,
                   saved_paths, loaded_paths, mapperVars>>

\* the parameters best_acc=0 and early_stop_counter=0 of run_experiment, which
\* the call of line 371 leaves at their defaults; previous is the value the
\* call before ended with
LeakedBestAcc(previous) == previous
EntryBestAcc(previous) == 0
EntryCounter(previous) == 0

\* lines 346-371 and 122-180: the fold loop binds i, calls run_experiment
StartFold ==
    /\ pc = "main"
    /\ i \in 0..(number_of_experiments - 1)
    /\ experiment_id' = i + 1
    /\ train_dir' = CV_fold_folders[i + 1]
    /\ best_acc' = EntryBestAcc(best_acc)
    /\ early_stop_counter' = EntryCounter(early_stop_counter)
    /\ model' = [fold |-> i + 1, trained |-> 0]
    /\ optimizer' = "none"
    /\ epoch' = 0
    /\ history' = <<>>
    /\ broke' = FALSE
    /\ pc' = "optimizer"
    /\ UNCHANGED <<configVars, files, exception, CV_fold_folders, i, metrics,
                   class_arrays, test_model, saved_paths, loaded_paths, mapperVars>>

\* lines 182-199
SelectOptimizer ==
    /\ pc = "optimizer"
    /\ LET choice == OptimizerChoice(optimizer_name, layer_decay)
       IN  IF choice = "raise"
           THEN /\ pc' = "raised"
                /\ exception' = "Undefined optimizer name"
                /\ optimizer' = optimizer
           ELSE /\ pc' = "epoch_loop"
                /\ exception' = exception
                /\ optimizer' = choice
    /\ UNCHANGED <<configVars, files, CV_fold_folders, i, metrics, class_arrays,
                   test_model, experiment_id, train_dir, best_acc, early_stop_counter, epoch,
                   model, history, broke, saved_paths, loaded_paths, mapperVars>>

\* lines 201-236: one iteration of the epoch loop
Epoch ==
    /\ pc = "epoch_loop"
    /\ epoch \in EpochRange(num_epoch)
    /\ \E val_accuracy \in AccValues :
         LET trained == [model EXCEPT !.trained = @ + 1]
             improved == Improves(val_accuracy, best_acc)
             counter == CounterAfter(improved, early_stop_counter)
             best == BestAfter(improved, val_accuracy, best_acc)
             path == SavePath(model_name, experiment_id)
             stop == ShouldStop(counter, early_stopping_thresh)
             \* torch.save is in the improvement branch
             disk == IF improved
                     THEN Write(files, path, [run |-> "current", state |-> trained])
                     ELSE files
         IN  /\ model' = trained
             /\ early_stop_counter' = counter
             /\ best_acc' = best
             /\ files' = disk
             /\ saved_paths' = IF improved
                               THEN saved_paths \cup {<<experiment_id, path>>}
                               ELSE saved_paths
             /\ history' = Append(history,
                                  [val_accuracy |-> val_accuracy,
                                   saved |-> improved,
                                   best_acc |-> best,
                                   early_stop_counter |-> counter,
                                   trained |-> trained.trained,
                                   checkpoint_before |-> CheckpointAt(files, path),
                                   checkpoint_after |-> CheckpointAt(disk, path)])
             /\ epoch' = epoch + 1
             /\ broke' = stop
             /\ pc' = IF stop THEN "returned" ELSE "epoch_loop"
    /\ UNCHANGED <<configVars, exception, CV_fold_folders, i, metrics, class_arrays,
                   test_model, experiment_id, train_dir, optimizer, loaded_paths,
                   mapperVars>>

\* range(num_epoch) is exhausted: line 238
EpochsExhausted ==
    /\ pc = "epoch_loop"
    /\ epoch \notin EpochRange(num_epoch)
    /\ pc' = "returned"
    /\ UNCHANGED <<configVars, files, exception, CV_fold_folders, i, metrics,
                   class_arrays, test_model, runVars, saved_paths, loaded_paths,
                   mapperVars>>

\* line 372, lines 102-119: torch.load of the fold's checkpoint
GetTestSetResults ==
    /\ pc = "returned"
    /\ LET path == LoadPath(model_name, experiment_id)
       IN  /\ loaded_paths' = loaded_paths \cup {<<experiment_id, path>>}
           /\ IF path \in DOMAIN files
              THEN /\ test_model' = files[path]
                   /\ pc' = "metrics"
                   /\ exception' = exception
              ELSE /\ test_model' = test_model
                   /\ pc' = "raised"
                   /\ exception' = "FileNotFoundError"
    /\ UNCHANGED <<configVars, files, CV_fold_folders, i, metrics, class_arrays,
                   runVars, saved_paths, mapperVars>>

\* lines 374-417
FoldMetrics ==
    /\ pc = "metrics"
    /\ metrics' = AppendMetrics(metrics, experiment_id)
    /\ class_arrays' = WriteRows(class_arrays, i, experiment_id)
    /\ i' = i + 1
    /\ pc' = "main"
    /\ UNCHANGED <<configVars, files, exception, CV_fold_folders, test_model, runVars,
                   saved_paths, loaded_paths, mapperVars>>

\* range(number_of_experiments) is exhausted
Finish ==
    /\ pc = "main"
    /\ i \notin 0..(number_of_experiments - 1)
    /\ pc' = "done"
    /\ UNCHANGED <<configVars, files, exception, CV_fold_folders, i, metrics,
                   class_arrays, test_model, runVars, saved_paths, loaded_paths,
                   mapperVars>>

Next ==
    \/ Discover
    \/ StartFold
    \/ SelectOptimizer
    \/ Epoch
    \/ EpochsExhausted
    \/ GetTestSetResults
    \/ FoldMetrics
    \/ Finish

Spec == Init /\ [][Next]_vars

----------------------------------------------------------------------------
(* Threshold mapper *)

\* regression outputs in tenths: below, at and above each cut point
OutputValues == {-3, 0, 4, 5, 6, 14, 15, 16, 24, 25, 26, 31}

\* the cut points [0.5, 1.5, 2.5] of each call site, in tenths
TrainInceptionBoundaries == <<5, 15, 25>>
TrainBoundaries == <<5, 15, 25>>
ValidationBoundaries == <<5, 15, 25>>
TestBoundariesShifted == <<5, 15, 35>>
TestBoundaries == <<5, 15, 25>>

\* the class of one output: the number of cut points below it; the class of
\* an output equal to a cut point is left open by cut_inclusive
ClassOf(x, boundaries, inclusive) ==
    Cardinality({k \in 1..Len(boundaries) :
                   boundaries[k] < x \/ (inclusive /\ boundaries[k] = x)})

\* utils.provider.get_regression_accuracy_with_boundaries(output, target, boundaries)
get_regression_accuracy_with_boundaries(out, boundaries, inclusive) ==
    [k \in 1..Len(out) |-> ClassOf(out[k], boundaries, inclusive)]

\* batches of one and of two outputs
Batches == [1..1 -> OutputValues] \cup [1..2 -> OutputValues]

\* line 46
TrainInceptionBatch ==
    /\ \E out \in Batches :
         /\ output' = out
         /\ output_classified' = get_regression_accuracy_with_boundaries(
                                     out, TrainInceptionBoundaries, cut_inclusive)
    /\ call_site' = "train_inception"
    /\ UNCHANGED <<cut_inclusive, mainVars>>

\* line 70
TrainBatch ==
    /\ \E out \in Batches :
         /\ output' = out
         /\ output_classified' = get_regression_accuracy_with_boundaries(
                                     out, TrainBoundaries, cut_inclusive)
    /\ call_site' = "train"
    /\ UNCHANGED <<cut_inclusive, mainVars>>

\* line 92
ValidationBatch ==
    /\ \E out \in Batches :
         /\ output' = out
         /\ output_classified' = get_regression_accuracy_with_boundaries(
                                     out, ValidationBoundaries, cut_inclusive)
    /\ call_site' = "validation"
    /\ UNCHANGED <<cut_inclusive, mainVars>>

\* line 117: get_test_results_regression(model, test_loader, device, [0.5, 1.5, 2.5])
TestBatch ==
    /\ \E out \in Batches :
         /\ output' = out
         /\ output_classified' = get_regression_accuracy_with_boundaries(
                                     out, TestBoundaries, cut_inclusive)
    /\ call_site' = "get_test_set_results"
    /\ UNCHANGED <<cut_inclusive, mainVars>>

MapperInit ==
    /\ model_name = ResNet18
    /\ optimizer_name = "Adam"
    /\ layer_decay = 0
    /\ num_epoch = 0
    /\ early_stopping_thresh = 0
    /\ listdir = <<>>
    /\ files = <<>>
    /\ MainStart
    /\ call_site = "none"
    /\ cut_inclusive \in BOOLEAN
    /\ output = <<>>
    /\ output_classified = <<>>

MapperNext ==
    \/ TrainInceptionBatch
    \/ TrainBatch
    \/ ValidationBatch
    \/ TestBatch

SpecMapper == MapperInit /\ [][MapperNext]_vars

----------------------------------------------------------------------------
(* Properties *)

Max(S) == CHOOSE x \in S : \A y \in S : y <= x

\* best_acc and early_stop_counter held before the k-th executed epoch
BestBefore(k) == IF k = 1 THEN 0 ELSE history[k - 1].best_acc
CounterBefore(k) == IF k = 1 THEN 0 ELSE history[k - 1].early_stop_counter

\* the k-th epoch's val_accuracy > best_acc * (1 + 0.0001)
StrictlyAbove(k) == history[k].val_accuracy * 10000 > BestBefore(k) * 10001

Executed == 1..Len(history)

InCall == pc \in {"epoch_loop", "returned"}

\* C1 as stated: for every threshold, 0 included, the loop breaks at the end of
\* the first epoch at which early_stop_counter equals the threshold, never
\* breaks while the counter is below it, and executes no epoch once the
\* counter has reached it.
EarlyStopExactlyAtThreshold ==
    /\ broke => history[Len(history)].early_stop_counter = early_stopping_thresh
    /\ (pc = "epoch_loop" /\ history # <<>>) =>
           history[Len(history)].early_stop_counter < early_stopping_thresh
    /\ \A k \in Executed : CounterBefore(k) < early_stopping_thresh

\* C1 amended: the statement holds for every threshold >= 1; with threshold 0
\* the first epoch is executed although the counter already equals the
\* threshold, and the loop breaks at the end of that epoch.
EarlyStopAtPositiveThreshold ==
    /\ early_stopping_thresh >= 1 => EarlyStopExactlyAtThreshold
    /\ early_stopping_thresh = 0 =>
           /\ Len(history) <= 1
           /\ pc = "epoch_loop" => history = <<>>
           /\ history # <<>> => broke

EarlyStopWitness ==
    /\ pc = "returned"
    /\ broke
    /\ early_stopping_thresh = 2
    /\ Len(history) = 3
    /\ history[1].saved
    /\ early_stop_counter = 2

\* C2: torch.save is executed in an epoch only if that epoch's val_accuracy is
\* strictly greater than best_acc * (1 + best_threshold) for the best_acc held
\* before the epoch; an epoch at or within the threshold writes nothing.
CheckpointOnlyOnStrictImprovement ==
    \A k \in Executed :
        \/ StrictlyAbove(k)
        \/ /\ ~history[k].saved
           /\ history[k].checkpoint_after = history[k].checkpoint_before

CheckpointWitness ==
    /\ Len(history) = 3
    /\ history[1].saved /\ history[1].val_accuracy = 20000
    /\ ~history[2].saved /\ history[2].val_accuracy = 20001
    /\ history[2].checkpoint_after.state.trained = 1
    /\ ~history[3].saved /\ history[3].val_accuracy = 20000

\* the number of directory entries whose name starts with "fold"
FoldEntries == Cardinality({k \in 1..Len(listdir) : IsFoldName(listdir[k])})

\* C3: after k iterations of the fold loop every per-fold metric list has
\* length k; when the loop finishes every list has length N and the three
\* class arrays have N rows, row r written by fold r.
MetricListLengths ==
    /\ pc \in {"main", "done"} => \A l \in MetricLists : Len(metrics[l]) = i
    /\ pc = "done" =>
           /\ i = FoldEntries
           /\ \A a \in ClassArrays :
                  /\ Len(class_arrays[a]) = FoldEntries
                  /\ \A r \in 1..FoldEntries : class_arrays[a][r] = r
    /\ pc # "start" => \A a \in ClassArrays : Len(class_arrays[a]) = FoldEntries

MetricListWitness ==
    /\ pc = "done"
    /\ FoldEntries = 2
    /\ Len(listdir) = 3
    /\ \A l \in MetricLists : metrics[l] = <<1, 2>>

\* C4: the epoch loop executes at most num_epoch epochs, and exactly
\* num_epoch when early_stop_counter never reaches the threshold.
AtMostNumEpochs ==
    /\ Len(history) <= num_epoch
    /\ epoch <= num_epoch
    /\ (/\ pc = "returned"
        /\ 0 < early_stopping_thresh
        /\ \A k \in Executed : history[k].early_stop_counter < early_stopping_thresh)
       => Len(history) = num_epoch

AtMostNumEpochsWitness ==
    /\ pc = "returned"
    /\ ~broke
    /\ num_epoch = 3
    /\ Len(history) = 3
    /\ early_stop_counter = 1

\* the last epoch up to k that improved, 0 when there is none
LastImprovement(k) == Max({0} \cup {j \in 1..k : StrictlyAbove(j)})

\* C5: on improvement early_stop_counter becomes 0 and best_acc becomes
\* val_accuracy, otherwise the counter grows by exactly 1 and best_acc is
\* unchanged; so after each epoch the counter is the number of epochs since
\* the last improvement or since the start of the fold.
CounterResetOrIncrement ==
    /\ \A k \in Executed :
           /\ IF StrictlyAbove(k)
              THEN /\ history[k].early_stop_counter = 0
                   /\ history[k].best_acc = history[k].val_accuracy
              ELSE /\ history[k].early_stop_counter = CounterBefore(k) + 1
                   /\ history[k].best_acc = BestBefore(k)
           /\ history[k].early_stop_counter = k - LastImprovement(k)
    /\ (InCall /\ history # <<>>) =>
           /\ early_stop_counter = history[Len(history)].early_stop_counter
           /\ best_acc = history[Len(history)].best_acc
    /\ (InCall /\ history = <<>>) => early_stop_counter = 0 /\ best_acc = 0

CounterWitness ==
    /\ Len(history) = 3
    /\ history[1].early_stop_counter = 1
    /\ history[2].early_stop_counter = 0
    /\ history[3].early_stop_counter = 1

\* C6: with the cut points of every call site, an output below 0.5 is class
\* 0, between 0.5 and 1.5 class 1, between 1.5 and 2.5 class 2, above 2.5
\* class 3; every output gets one class of 0..3 and the classes are monotone
\* in the output.
ThresholdMapperClasses ==
    /\ Len(output_classified) = Len(output)
    /\ \A k \in 1..Len(output) :
           LET x == output[k]
               c == output_classified[k]
           IN  /\ c \in 0..3
               /\ x < 5 => c = 0
               /\ (5 < x /\ x < 15) => c = 1
               /\ (15 < x /\ x < 25) => c = 2
               /\ 25 < x => c = 3
    /\ \A j, k \in 1..Len(output) :
           output[j] <= output[k] => output_classified[j] <= output_classified[k]

ThresholdMapperWitness ==
    /\ call_site = "get_test_set_results"
    /\ output = <<26, 4>>
    /\ output_classified = <<3, 0>>

KnownOptimizers == {"Adam", "AdamW", "SGD"}

\* C7: an optimizer name outside Adam, AdamW, SGD makes run_experiment raise
\* Exception("Undefined optimizer name") before any epoch runs: no checkpoint
\* is written, best_acc and early_stop_counter stay 0; a name inside the set
\* never raises it.
UndefinedOptimizerRaises ==
    /\ optimizer_name \notin KnownOptimizers =>
           /\ pc \in {"start", "main", "optimizer", "raised", "done"}
           /\ pc = "raised" => exception = "Undefined optimizer name"
           /\ (pc = "main" /\ number_of_experiments > 0) => i = 0
           /\ history = <<>>
           /\ saved_paths = {}
           /\ \A p \in DOMAIN files : files[p] = StaleCheckpoint
           /\ best_acc = 0
           /\ early_stop_counter = 0
    /\ optimizer_name \in KnownOptimizers =>
           /\ exception # "Undefined optimizer name"
           /\ pc = "epoch_loop" => optimizer \in KnownOptimizers \cup {"AdamW_lrd"}

UndefinedOptimizerWitness ==
    /\ pc = "raised"
    /\ optimizer_name = "RMSprop"
    /\ exception = "Undefined optimizer name"
    /\ experiment_id = 1

\* "weights/best_R_ResNet18_1.pth.tar"
ResNet18Fold1Path ==
    <<"w", "e", "i", "g", "h", "t", "s", "/", "b", "e", "s", "t", "_", "R", "_",
      "R", "e", "s", "N", "e", "t", "1", "8", "_", "1", ".", "p", "t", "h", ".",
      "t", "a", "r">>

\* C8: the path run_experiment saves to is the path get_test_set_results
\* loads from for the same fold id, of the form
\* weights/best_R_<model>_<fold>.pth.tar, and two fold ids of one run never
\* write the same file.
CheckpointPathsAgree ==
    /\ \A s \in saved_paths : \A l \in loaded_paths : s[1] = l[1] => s[2] = l[2]
    /\ \A s \in saved_paths : \A t \in saved_paths : s[2] = t[2] => s[1] = t[1]
    /\ \A s \in saved_paths \cup loaded_paths :
           (model_name = ResNet18 /\ s[1] = 1) => s[2] = ResNet18Fold1Path

CheckpointPathsWitness ==
    /\ model_name = ResNet18
    /\ {s[1] : s \in saved_paths} = {1, 2}
    /\ {l[1] : l \in loaded_paths} = {1, 2}

\* C9: every call of run_experiment that returns has written the fold's
\* checkpoint at least once, so the checkpoint get_test_set_results loads
\* was written by the run_experiment call of the same run and fold.
ReturnedCallWroteCheckpoint ==
    /\ pc = "returned" => \E s \in saved_paths : s[1] = experiment_id
    /\ pc = "metrics" =>
           /\ test_model.run = "current"
           /\ test_model.state.fold = experiment_id

\* the epochs of the current call that executed torch.save
Written == {j \in Executed : history[j].saved}

\* C10: best_acc never decreases from epoch to epoch, and once the call has
\* written a checkpoint, the file holds the weights of the epoch whose
\* validation accuracy is the current best_acc; a later epoch that does not
\* improve leaves it in place.
BestAccMatchesCheckpoint ==
    /\ \A k \in Executed : history[k].best_acc >= BestBefore(k)
    /\ (InCall /\ Written # {}) =>
           LET j == Max(Written)
               path == LoadPath(model_name, experiment_id)
           IN  /\ path \in DOMAIN files
               /\ files[path] = [run |-> "current",
                                 state |-> [fold |-> experiment_id, trained |-> j]]
               /\ history[j].trained = j
               /\ history[j].val_accuracy = best_acc
               /\ history[Len(history)].best_acc = best_acc

BestAccWitness ==
    /\ pc = "returned"
    /\ Len(history) = 3
    /\ history[1].saved
    /\ history[2].saved
    /\ ~history[3].saved
    /\ best_acc = 20003

\* best_acc and early_stop_counter after k epochs, recomputed from 0 and 0 and
\* the validation accuracies of the current call alone
RECURSIVE Replay(_)
Replay(k) ==
    IF k = 0 THEN [best_acc |-> 0, early_stop_counter |-> 0, saved |-> FALSE]
    ELSE LET before == Replay(k - 1)
             val == history[k].val_accuracy
         IN  IF val * 10000 > before.best_acc * 10001
             THEN [best_acc |-> val, early_stop_counter |-> 0, saved |-> TRUE]
             ELSE [best_acc |-> before.best_acc,
                   early_stop_counter |-> before.early_stop_counter + 1,
                   saved |-> FALSE]

\* the directory entries named fold... that sort before name
FoldsBefore(name) ==
    {k \in 1..Len(listdir) : IsFoldName(listdir[k]) /\ StrLess(listdir[k], name)}

\* C11: every fold's run_experiment call starts with best_acc = 0 and
\* early_stop_counter = 0, so the epoch at which it stops and the epochs in
\* which it writes a checkpoint follow from its own validation accuracies and
\* the configuration alone; the folds are taken in sorted name order with
\* ids 1..N.
FoldsDoNotLeak ==
    /\ (pc = "optimizer" \/ (InCall /\ history = <<>>)) =>
           best_acc = 0 /\ early_stop_counter = 0
    /\ \A k \in Executed :
           /\ history[k].best_acc = Replay(k).best_acc
           /\ history[k].early_stop_counter = Replay(k).early_stop_counter
           /\ history[k].saved = Replay(k).saved
           /\ k < Len(history) => Replay(k).early_stop_counter < early_stopping_thresh
    /\ (InCall /\ history # <<>>) =>
           broke = (Replay(Len(history)).early_stop_counter >= early_stopping_thresh)
    /\ pc \in {"optimizer", "epoch_loop", "returned", "metrics"} =>
           /\ experiment_id = i + 1
           /\ experiment_id \in 1..FoldEntries
           /\ IsFoldName(train_dir)
           /\ \E k \in 1..Len(listdir) : listdir[k] = train_dir
           /\ Cardinality(FoldsBefore(train_dir)) = experiment_id - 1

FoldsDoNotLeakWitness ==
    /\ pc = "returned"
    /\ listdir = <<Fold2, TestSet, Fold1>>
    /\ experiment_id = 2
    /\ train_dir = Fold2
    /\ CheckpointAt(files, LoadPath(model_name, 1)).state.trained = 2
    /\ Len(history) = 2
    /\ history[1].saved /\ history[1].val_accuracy = 20000
    /\ ~history[2].saved
    /\ broke

====
